---- MODULE Spec2Model ----
(***************************************************************************)
(* Model of the rgb GameBoy emulator core: the register file               *)
(* (src/src/cpu/regs.rs), the memory interconnect (src/src/mem/mmu.rs),    *)
(* the CPU fetch/decode/execute engine (src/src/cpu/cpu.rs), the video     *)
(* timing component (src/src/vid/gpu.rs) and the driver                    *)
(* (src/src/sys/system.rs).                                                *)
(*                                                                         *)
(* Bytes are 0..255 and words 0..65535.  The three storage arrays of the   *)
(* Mmu ([u8; LEN], zero-initialised) are represented by their non-zero     *)
(* cells: a function from the offsets holding a non-zero byte to that      *)
(* byte; every other offset of the array holds 0x00.                       *)
(***************************************************************************)
EXTENDS Integers, Sequences, FiniteSets, TLC

VARIABLES
    regs,               \* Cpu.regs: Regs {a, f, b, c, d, e, h, l, pc, sp}
    is_halted,          \* Cpu.is_halted
    next_opcode_is_cb,  \* Cpu.next_opcode_is_cb
    curr_opcode,        \* Cpu.curr_opcode: None, or the entry [cb, byte]
    is_bios_mapped,     \* Mmu.is_bios_mapped
    vram,               \* Mmu.vram
    wram,               \* Mmu.wram
    zram,               \* Mmu.zram
    curr_mode,          \* Mmu.gpu.curr_mode
    overflow_checks,    \* build profile: TRUE = arithmetic overflow panics (debug)
    panicked,           \* "" while the process runs, else the panic reason
    last_call,          \* history: the last API call, its arguments and result
    prev_call,          \* history: the API call before last_call
    ncalls              \* history: number of API calls made so far

vars == <<regs, is_halted, next_opcode_is_cb, curr_opcode, is_bios_mapped,
          vram, wram, zram, curr_mode, overflow_checks, panicked,
          last_call, prev_call, ncalls>>

---------------------------------------------------------------------------
(* Bounds of the model.                                                    *)

\* Number of API calls (Mmu operations, System::step) in one behaviour.
MaxCalls == 3
\* Number of instruction bytes the harness loads from the start PC.
MaxProg == 2
\* Number of direct calls of _run_opcode_un in one unit test.
MaxRuns == 1

---------------------------------------------------------------------------
(* Bit-level helpers for u8 / u16 arithmetic.                              *)

None == [none |-> TRUE]

\* Bit k of n (n >> k) & 1.
Bit(n, k) == (n \div (2^k)) % 2

\* a ^ b on u8.
Xor8(a, b) ==
    ((Bit(a,0) + Bit(b,0)) % 2)       + ((Bit(a,1) + Bit(b,1)) % 2) * 2
  + ((Bit(a,2) + Bit(b,2)) % 2) * 4   + ((Bit(a,3) + Bit(b,3)) % 2) * 8
  + ((Bit(a,4) + Bit(b,4)) % 2) * 16  + ((Bit(a,5) + Bit(b,5)) % 2) * 32
  + ((Bit(a,6) + Bit(b,6)) % 2) * 64  + ((Bit(a,7) + Bit(b,7)) % 2) * 128

\* Variants of the wrapping operations: the result saturates at the ends of
\* the range.
WrapAdd8_saturating(a, b)  == IF a + b > 255 THEN 255 ELSE a + b
WrapSub8_saturating(a, b)  == IF a < b THEN 0 ELSE a - b
WrapAdd16_saturating(a, b) == IF a + b > 65535 THEN 65535 ELSE a + b

\* u8::wrapping_add / wrapping_sub, u16::wrapping_add / wrapping_sub.
WrapAdd8(a, b)  == (a + b) % 256
WrapSub8(a, b)  == (a - b + 256) % 256
WrapAdd16(a, b) == (a + b) % 65536
WrapSub16(a, b) == (a - b + 65536) % 65536

\* A zero-initialised array held as its non-zero cells.
Get(arr, i) == IF i \in DOMAIN arr THEN arr[i] ELSE 0
Set(arr, i, v) ==
    IF v = 0
    THEN [j \in (DOMAIN arr) \ {i} |-> arr[j]]
    ELSE [j \in (DOMAIN arr) \cup {i} |-> IF j = i THEN v ELSE arr[j]]
Empty == [j \in {} |-> 0]

---------------------------------------------------------------------------
(* Register file: src/src/cpu/regs.rs                                      *)

FlagZ == 128
FlagN == 64
FlagH == 32
FlagC == 16

\* Regs::default()
RegsDefault ==
    [a |-> 0, f |-> 0, b |-> 0, c |-> 0, d |-> 0, e |-> 0, h |-> 0, l |-> 0,
     pc |-> 0, sp |-> 0]

\* Variants of _dec_r16 and _inc_r16: the high byte moves one step late,
\* when the low byte leaves the end of its range instead of when it wraps.
dec_r16_borrows_late(msb, lsb) ==
    LET res_lsb == WrapSub8(lsb, 1)
        res_msb == IF res_lsb = 254 THEN WrapSub8(msb, 1) ELSE msb
    IN  <<res_msb, res_lsb>>
inc_r16_carries_late(msb, lsb) ==
    LET res_lsb == WrapAdd8(lsb, 1)
        res_msb == IF res_lsb = 1 THEN WrapAdd8(msb, 1) ELSE msb
    IN  <<res_msb, res_lsb>>

\* Regs::_dec_r16, Regs::_inc_r16: <<msb, lsb>>
dec_r16(msb, lsb) ==
    LET res_lsb == WrapSub8(lsb, 1)
        res_msb == IF res_lsb = 255 THEN WrapSub8(msb, 1) ELSE msb
    IN  <<res_msb, res_lsb>>
inc_r16(msb, lsb) ==
    LET res_lsb == WrapAdd8(lsb, 1)
        res_msb == IF res_lsb = 0 THEN WrapAdd8(msb, 1) ELSE msb
    IN  <<res_msb, res_lsb>>

af(r) == r.a * 256 + r.f
bc(r) == r.b * 256 + r.c
de(r) == r.d * 256 + r.e
hl(r) == r.h * 256 + r.l

dec_bc(r) == [r EXCEPT !.b = dec_r16(r.b, r.c)[1], !.c = dec_r16(r.b, r.c)[2]]
dec_de(r) == [r EXCEPT !.d = dec_r16(r.d, r.e)[1], !.e = dec_r16(r.d, r.e)[2]]
dec_hl(r) == [r EXCEPT !.h = dec_r16(r.h, r.l)[1], !.l = dec_r16(r.h, r.l)[2]]
inc_hl(r) == [r EXCEPT !.h = inc_r16(r.h, r.l)[1], !.l = inc_r16(r.h, r.l)[2]]

set_bc(r, raw) == [r EXCEPT !.b = raw \div 256, !.c = raw % 256]
set_de(r, raw) == [r EXCEPT !.d = raw \div 256, !.e = raw % 256]
set_hl(r, raw) == [r EXCEPT !.h = raw \div 256, !.l = raw % 256]

\* Regs::set_af is called by Cpu::_set_r16_from_rp2 but regs.rs does not
\* define it; it is modelled from the data model of the specification: A is the
\* high byte, F the low byte, and the lower nibble of F reads as zero.
set_af(r, raw) == [r EXCEPT !.a = raw \div 256, !.f = (raw % 256) - (raw % 16)]

get_flag(r, flag) == (r.f \div flag) % 2 = 1
\* Variant of set_flag: setting assigns the flag's bit to F instead of
\* or-ing it in.
set_flag_assigns(r, flag, set) ==
    IF set
    THEN [r EXCEPT !.f = flag]
    ELSE [r EXCEPT !.f = IF get_flag(r, flag) THEN @ - flag ELSE @]

set_flag(r, flag, set) ==
    IF set
    THEN [r EXCEPT !.f = IF get_flag(r, flag) THEN @ ELSE @ + flag]
    ELSE [r EXCEPT !.f = IF get_flag(r, flag) THEN @ - flag ELSE @]

---------------------------------------------------------------------------
(* Memory interconnect: src/src/mem/mmu.rs                                 *)

BIOS_BEG_ADDR == 0
BIOS_END_ADDR == 255
VRAM_BEG_ADDR == 32768
VRAM_END_ADDR == 40959
WRAM_BEG_ADDR == 49152
WRAM_END_ADDR == 57343
RRAM_BEG_ADDR == 57344
RRAM_END_ADDR == 65023
ZRAM_BEG_ADDR == 65408
ZRAM_END_ADDR == 65534

\* The 256-byte boot overlay image of src/mem/bios.rs.  That file is not part
\* of the sources at hand: bytes 0..2 (0x31, 0xFE, 0xFF) are the ones the Mmu
\* tests read back (mmu.rs, test_read_byte / test_read_word); the rest is the
\* reference boot sequence the specification requires the image to match.
BIOS == <<
     49, 254, 255, 175,  33, 255, 159,  50, 203, 124,  32, 251,  33,  38, 255,  14,
     17,  62, 128,  50, 226,  12,  62, 243, 226,  50,  62, 119, 119,  62, 252, 224,
     71,  17,   4,   1,  33,  16, 128,  26, 205, 149,   0, 205, 150,   0,  19, 123,
    254,  52,  32, 243,  17, 216,   0,   6,   8,  26,  19,  34,  35,   5,  32, 249,
     62,  25, 234,  16, 153,  33,  47, 153,  14,  12,  61,  40,   8,  50,  13,  32,
    249,  46,  15,  24, 243, 103,  62, 100,  87, 224,  66,  62, 145, 224,  64,   4,
     30,   2,  14,  12, 240,  68, 254, 144,  32, 250,  13,  32, 247,  29,  32, 242,
     14,  19,  36, 124,  30, 131, 254,  98,  40,   6,  30, 193, 254, 100,  32,   6,
    123, 226,  12,  62, 135, 226, 240,  66, 144, 224,  66,  21,  32, 210,   5,  32,
     79,  22,  32,  24, 203,  79,   6,   4, 197, 203,  17,  23, 193, 203,  17,  23,
      5,  32, 245,  34,  35,  34,  35, 201, 206, 237, 102, 102, 204,  13,   0,  11,
      3, 115,   0, 131,   0,  12,   0,  13,   0,   8,  17,  31, 136, 137,   0,  14,
    220, 204, 110, 230, 221, 221, 217, 153, 187, 187, 103,  99, 110,  14, 236, 204,
    221, 220, 153, 159, 187, 185,  51,  62,  60,  66, 185, 165, 185, 165,  66,  60,
     33,   4,   1,  17, 168,   0,  26,  19, 190,  32, 254,  35, 125, 254,  52,  32,
    245,   6,  25, 120, 134,  35,   5,  32, 251, 134,  32, 254,  62,   1, 224,  80
>>

\* Mmu::new()
MmuNew == [is_bios_mapped |-> TRUE, vram |-> Empty, wram |-> Empty,
           zram |-> Empty, curr_mode |-> "OamScan"]

\* Mmu::is_bios_mapped, Mmu::unmap_bios
mmu_is_bios_mapped(m) == m.is_bios_mapped
\* Variant of unmap_bios: the flag is toggled.
unmap_bios_toggles(m) == [m EXCEPT !.is_bios_mapped = ~@]

unmap_bios(m) == [m EXCEPT !.is_bios_mapped = FALSE]

InRange(addr, beg, end) == beg <= addr /\ addr <= end

\* Variant of read_byte: the echo range has no arm of its own.
read_byte_no_echo(m, addr) ==
    IF m.is_bios_mapped /\ InRange(addr, BIOS_BEG_ADDR, BIOS_END_ADDR)
        THEN BIOS[(addr - BIOS_BEG_ADDR) + 1]
    ELSE IF InRange(addr, VRAM_BEG_ADDR, VRAM_END_ADDR)
        THEN Get(m.vram, addr - VRAM_BEG_ADDR)
    ELSE IF InRange(addr, WRAM_BEG_ADDR, WRAM_END_ADDR)
        THEN Get(m.wram, addr - WRAM_BEG_ADDR)
    ELSE IF InRange(addr, ZRAM_BEG_ADDR, ZRAM_END_ADDR)
        THEN Get(m.zram, addr - ZRAM_BEG_ADDR)
    ELSE 0

\* Variant of read_byte: the overlay arm does not look at the flag.
read_byte_overlay_always(m, addr) ==
    IF InRange(addr, BIOS_BEG_ADDR, BIOS_END_ADDR)
        THEN BIOS[(addr - BIOS_BEG_ADDR) + 1]
    ELSE IF InRange(addr, VRAM_BEG_ADDR, VRAM_END_ADDR)
        THEN Get(m.vram, addr - VRAM_BEG_ADDR)
    ELSE IF InRange(addr, WRAM_BEG_ADDR, WRAM_END_ADDR)
        THEN Get(m.wram, addr - WRAM_BEG_ADDR)
    ELSE IF InRange(addr, RRAM_BEG_ADDR, RRAM_END_ADDR)
        THEN Get(m.wram, addr - RRAM_BEG_ADDR)
    ELSE IF InRange(addr, ZRAM_BEG_ADDR, ZRAM_END_ADDR)
        THEN Get(m.zram, addr - ZRAM_BEG_ADDR)
    ELSE 0

\* Mmu::read_byte: the arms of the match, in order.
read_byte(m, addr) ==
    IF m.is_bios_mapped /\ InRange(addr, BIOS_BEG_ADDR, BIOS_END_ADDR)
        THEN BIOS[(addr - BIOS_BEG_ADDR) + 1]
    ELSE IF InRange(addr, VRAM_BEG_ADDR, VRAM_END_ADDR)
        THEN Get(m.vram, addr - VRAM_BEG_ADDR)
    ELSE IF InRange(addr, WRAM_BEG_ADDR, WRAM_END_ADDR)
        THEN Get(m.wram, addr - WRAM_BEG_ADDR)
    ELSE IF InRange(addr, RRAM_BEG_ADDR, RRAM_END_ADDR)
        THEN Get(m.wram, addr - RRAM_BEG_ADDR)
    ELSE IF InRange(addr, ZRAM_BEG_ADDR, ZRAM_END_ADDR)
        THEN Get(m.zram, addr - ZRAM_BEG_ADDR)
    ELSE 0

\* `addr + 1` on a u16 in read_word / write_word is a plain addition: with
\* overflow checks compiled in (debug profile) it panics at addr = 0xFFFF,
\* without them (release profile) it wraps to 0x0000.
AddrPlusOneOverflows(addr) == overflow_checks /\ addr + 1 > 65535
AddrPlusOne(addr) == (addr + 1) % 65536

\* Mmu::read_word: the value, when `addr + 1` does not panic.
read_word(m, addr) ==
    LET lsb == read_byte(m, addr)
        msb == read_byte(m, AddrPlusOne(addr))
    IN  msb * 256 + lsb

\* Variant of write_byte: the high RAM arm runs one address too far.
write_byte_zram_to_ffff(m, addr, val) ==
    IF InRange(addr, VRAM_BEG_ADDR, VRAM_END_ADDR)
        THEN [m EXCEPT !.vram = Set(@, addr - VRAM_BEG_ADDR, val)]
    ELSE IF InRange(addr, WRAM_BEG_ADDR, WRAM_END_ADDR)
        THEN [m EXCEPT !.wram = Set(@, addr - WRAM_BEG_ADDR, val)]
    ELSE IF InRange(addr, RRAM_BEG_ADDR, RRAM_END_ADDR)
        THEN [m EXCEPT !.wram = Set(@, addr - RRAM_BEG_ADDR, val)]
    ELSE IF InRange(addr, ZRAM_BEG_ADDR, ZRAM_END_ADDR + 1)
        THEN [m EXCEPT !.zram = Set(@, addr - ZRAM_BEG_ADDR, val)]
    ELSE m

\* Variant of write_byte: a non-zero byte written at 0xFF50 also unmaps the
\* overlay.
write_byte_unmaps_at_ff50(m, addr, val) ==
    LET m1 == IF addr = 65360 /\ val # 0
              THEN [m EXCEPT !.is_bios_mapped = FALSE] ELSE m
    IN  IF InRange(addr, VRAM_BEG_ADDR, VRAM_END_ADDR)
        THEN [m1 EXCEPT !.vram = Set(@, addr - VRAM_BEG_ADDR, val)]
        ELSE IF InRange(addr, WRAM_BEG_ADDR, WRAM_END_ADDR)
        THEN [m1 EXCEPT !.wram = Set(@, addr - WRAM_BEG_ADDR, val)]
        ELSE IF InRange(addr, RRAM_BEG_ADDR, RRAM_END_ADDR)
        THEN [m1 EXCEPT !.wram = Set(@, addr - RRAM_BEG_ADDR, val)]
        ELSE IF InRange(addr, ZRAM_BEG_ADDR, ZRAM_END_ADDR)
        THEN [m1 EXCEPT !.zram = Set(@, addr - ZRAM_BEG_ADDR, val)]
        ELSE m1

\* Mmu::write_byte: the arms of the match, in order.
write_byte(m, addr, val) ==
    IF InRange(addr, VRAM_BEG_ADDR, VRAM_END_ADDR)
        THEN [m EXCEPT !.vram = Set(@, addr - VRAM_BEG_ADDR, val)]
    ELSE IF InRange(addr, WRAM_BEG_ADDR, WRAM_END_ADDR)
        THEN [m EXCEPT !.wram = Set(@, addr - WRAM_BEG_ADDR, val)]
    ELSE IF InRange(addr, RRAM_BEG_ADDR, RRAM_END_ADDR)
        THEN [m EXCEPT !.wram = Set(@, addr - RRAM_BEG_ADDR, val)]
    ELSE IF InRange(addr, ZRAM_BEG_ADDR, ZRAM_END_ADDR)
        THEN [m EXCEPT !.zram = Set(@, addr - ZRAM_BEG_ADDR, val)]
    ELSE m

\* Variant of write_word: the high byte goes to addr, the low byte to addr + 1.
write_word_big_endian(m, addr, d16) ==
    LET lsb == d16 % 256
        msb == (d16 \div 256) % 256
        m1  == write_byte(m, addr, msb)
    IN  IF AddrPlusOneOverflows(addr) THEN m1
        ELSE write_byte(m1, AddrPlusOne(addr), lsb)

\* Mmu::write_word: the low byte is written first; when `addr + 1` panics the
\* second write never happens.
write_word(m, addr, d16) ==
    LET lsb == d16 % 256
        msb == (d16 \div 256) % 256
        m1  == write_byte(m, addr, lsb)
    IN  IF AddrPlusOneOverflows(addr) THEN m1
        ELSE write_byte(m1, AddrPlusOne(addr), msb)

\* The Mmu held in the variables.
mmu == [is_bios_mapped |-> is_bios_mapped, vram |-> vram, wram |-> wram,
        zram |-> zram, curr_mode |-> curr_mode]

---------------------------------------------------------------------------
(* Opcode table: src/src/cpu/opcode.rs is not part of the sources at hand;  *)
(* it is modelled from the specification's description of the table.       *)

\* The primary-space bytes with no assigned instruction (no table entry).
IllegalPrimary == {211, 219, 221, 227, 228, 235, 236, 237, 244, 252, 253}

\* Opcode::from(is_cb, byte): the entry of that space, or None.
OpcodeFrom(is_cb, byte) ==
    IF ~is_cb /\ byte \in IllegalPrimary THEN None
    ELSE [cb |-> is_cb, byte |-> byte]

\* Opcode::x / y / z / p / q: views over the entry's byte.
op_x(opcode) == opcode.byte \div 64
op_y(opcode) == (opcode.byte \div 8) % 8
op_z(opcode) == opcode.byte % 8
op_p(opcode) == op_y(opcode) \div 2
op_q(opcode) == op_y(opcode) % 2

\* Opcode.ncycles: <<base, alternate>> in cycle-units, for the instructions
\* the engine executes (register index 6 is the memory cell at HL).
ncycles(opcode) ==
    LET x == op_x(opcode)  y == op_y(opcode)  z == op_z(opcode)
        q == op_q(opcode)  b == opcode.byte
        same(n) == <<n, n>>
    IN  IF opcode.cb THEN
            IF z = 6 THEN (IF x = 1 THEN same(3) ELSE same(4)) ELSE same(2)
        ELSE IF x = 0 /\ z = 0 /\ y >= 4 THEN <<3, 2>>
        ELSE IF x = 0 /\ z = 1 /\ q = 0 THEN same(3)
        ELSE IF x = 0 /\ z = 2 THEN same(2)
        ELSE IF x = 0 /\ z = 3 THEN same(2)
        ELSE IF x = 0 /\ z \in {4, 5} THEN (IF y = 6 THEN same(3) ELSE same(1))
        ELSE IF x = 0 /\ z = 6 THEN (IF y = 6 THEN same(3) ELSE same(2))
        ELSE IF x = 1 THEN (IF b = 118 THEN same(1)
                            ELSE IF y = 6 \/ z = 6 THEN same(2) ELSE same(1))
        ELSE IF x = 2 THEN (IF z = 6 THEN same(2) ELSE same(1))
        ELSE IF b = 201 THEN same(4)
        ELSE IF b = 205 THEN same(6)
        ELSE IF x = 3 /\ z = 1 /\ q = 0 THEN same(3)
        ELSE IF x = 3 /\ z = 5 /\ q = 0 THEN same(4)
        ELSE IF b = 224 THEN same(3)
        ELSE IF b = 226 THEN same(2)
        ELSE IF b = 254 THEN same(2)
        ELSE same(1)

---------------------------------------------------------------------------
(* CPU execution engine: src/src/cpu/cpu.rs                                *)
(*                                                                         *)
(* The helpers work on a machine record                                    *)
(*   [regs, is_halted, next_opcode_is_cb, curr_opcode, mmu, panic]         *)
(* holding the Cpu, the Mmu it is stepped with, and the reason of the      *)
(* panic that ended the call ("" when there was none).  Once panic is set  *)
(* the remaining statements of the call are skipped.                       *)

\* Cpu::new()
CpuNew == [is_halted |-> FALSE, next_opcode_is_cb |-> FALSE,
           curr_opcode |-> None, regs |-> RegsDefault]

\* Variant of Panic: the failure is swallowed and the call carries on.
Panic_swallowed(s, reason) == s

\* Cpu::_panic, panic!(): the call ends here.
Panic(s, reason) == IF s.panic = "" THEN [s EXCEPT !.panic = reason] ELSE s

\* Statement sequencing: F runs unless a panic already ended the call.
Then(s, F(_)) == IF s.panic = "" THEN F(s) ELSE s

\* Variant of fetch_next_byte: PC moves past two bytes.
fetch_next_byte_advances_two(s) ==
    [res |-> read_byte(s.mmu, s.regs.pc),
     s   |-> [s EXCEPT !.regs.pc = WrapAdd16(@, 2)]]

\* Cpu::_fetch_next_byte: [res, s]
fetch_next_byte(s) ==
    [res |-> read_byte(s.mmu, s.regs.pc),
     s   |-> [s EXCEPT !.regs.pc = WrapAdd16(@, 1)]]

\* Variant of fetch_next_word: PC moves past one byte only.
fetch_next_word_advances_one(s) ==
    IF AddrPlusOneOverflows(s.regs.pc)
    THEN [res |-> 0, s |-> Panic(s, "attempt to add with overflow")]
    ELSE [res |-> read_word(s.mmu, s.regs.pc),
          s   |-> [s EXCEPT !.regs.pc = WrapAdd16(@, 1)]]

\* Cpu::_fetch_next_word: [res, s]; read_word panics before PC moves.
fetch_next_word(s) ==
    IF AddrPlusOneOverflows(s.regs.pc)
    THEN [res |-> 0, s |-> Panic(s, "attempt to add with overflow")]
    ELSE [res |-> read_word(s.mmu, s.regs.pc),
          s   |-> [s EXCEPT !.regs.pc = WrapAdd16(@, 2)]]

\* Cpu::_get_r8_from_r
get_r8_from_r(s, r) ==
    CASE r = 0 -> s.regs.b
      [] r = 1 -> s.regs.c
      [] r = 2 -> s.regs.d
      [] r = 3 -> s.regs.e
      [] r = 4 -> s.regs.h
      [] r = 5 -> s.regs.l
      [] r = 6 -> read_byte(s.mmu, hl(s.regs))
      [] r = 7 -> s.regs.a

\* Cpu::_set_r8_from_r
set_r8_from_r(s, r, val) ==
    CASE r = 0 -> [s EXCEPT !.regs.b = val]
      [] r = 1 -> [s EXCEPT !.regs.c = val]
      [] r = 2 -> [s EXCEPT !.regs.d = val]
      [] r = 3 -> [s EXCEPT !.regs.e = val]
      [] r = 4 -> [s EXCEPT !.regs.h = val]
      [] r = 5 -> [s EXCEPT !.regs.l = val]
      [] r = 6 -> [s EXCEPT !.mmu = write_byte(@, hl(s.regs), val)]
      [] r = 7 -> [s EXCEPT !.regs.a = val]

\* Cpu::_get_r16_from_rp
get_r16_from_rp(s, rp) ==
    CASE rp = 0 -> bc(s.regs)
      [] rp = 1 -> de(s.regs)
      [] rp = 2 -> hl(s.regs)
      [] rp = 3 -> s.regs.sp

\* Cpu::_get_r16_from_rp2
get_r16_from_rp2(s, rp2) ==
    CASE rp2 = 0 -> bc(s.regs)
      [] rp2 = 1 -> de(s.regs)
      [] rp2 = 2 -> hl(s.regs)
      [] rp2 = 3 -> af(s.regs)

\* Cpu::_set_r16_from_rp
set_r16_from_rp(s, rp, val) ==
    CASE rp = 0 -> [s EXCEPT !.regs = set_bc(@, val)]
      [] rp = 1 -> [s EXCEPT !.regs = set_de(@, val)]
      [] rp = 2 -> [s EXCEPT !.regs = set_hl(@, val)]
      [] rp = 3 -> [s EXCEPT !.regs.sp = val]

\* Variant of set_r16_from_rp2: for AF the low byte is stored in F as it is.
set_r16_from_rp2_raw_f(s, rp2, val) ==
    CASE rp2 = 0 -> [s EXCEPT !.regs = set_bc(@, val)]
      [] rp2 = 1 -> [s EXCEPT !.regs = set_de(@, val)]
      [] rp2 = 2 -> [s EXCEPT !.regs = set_hl(@, val)]
      [] rp2 = 3 -> [s EXCEPT !.regs.a = val \div 256, !.regs.f = val % 256]

\* Cpu::_set_r16_from_rp2
set_r16_from_rp2(s, rp2, val) ==
    CASE rp2 = 0 -> [s EXCEPT !.regs = set_bc(@, val)]
      [] rp2 = 1 -> [s EXCEPT !.regs = set_de(@, val)]
      [] rp2 = 2 -> [s EXCEPT !.regs = set_hl(@, val)]
      [] rp2 = 3 -> [s EXCEPT !.regs = set_af(@, val)]

\* Variant of stack_push: the word is written before SP moves.
stack_push_writes_first(s, word) ==
    LET sp == WrapSub16(s.regs.sp, 2)
        s1 == [s EXCEPT !.regs.sp = sp, !.mmu = write_word(@, s.regs.sp, word)]
    IN  IF AddrPlusOneOverflows(s.regs.sp)
        THEN Panic(s1, "attempt to add with overflow") ELSE s1

\* Cpu::_stack_push: SP moves first; write_word may panic after its first byte.
stack_push(s, word) ==
    LET sp == WrapSub16(s.regs.sp, 2)
        s1 == [s EXCEPT !.regs.sp = sp, !.mmu = write_word(@, sp, word)]
    IN  IF AddrPlusOneOverflows(sp)
        THEN Panic(s1, "attempt to add with overflow") ELSE s1

\* Cpu::_stack_pop: [res, s]; read_word panics before SP moves.
stack_pop(s) ==
    IF AddrPlusOneOverflows(s.regs.sp)
    THEN [res |-> 0, s |-> Panic(s, "attempt to add with overflow")]
    ELSE [res |-> read_word(s.mmu, s.regs.sp),
          s   |-> [s EXCEPT !.regs.sp = WrapAdd16(@, 2)]]

\* Variant of alu_rl: a plain rotate, bit 7 of the operand fed into bit 0.
alu_rl_circular(s, d8) ==
    LET c  == Bit(d8, 7) = 1
        r  == ((d8 * 2) % 256) + Bit(d8, 7)
        r1 == set_flag(s.regs, FlagZ, r = 0)
        r2 == set_flag(r1, FlagN, FALSE)
        r3 == set_flag(r2, FlagC, c)
        r4 == set_flag(r3, FlagH, FALSE)
    IN  [res |-> r, s |-> [s EXCEPT !.regs = r4]]

\* Cpu::_alu_rl: [res, s]
alu_rl(s, d8) ==
    LET c  == Bit(d8, 7) = 1
        r  == ((d8 * 2) % 256) + (IF get_flag(s.regs, FlagC) THEN 1 ELSE 0)
        r1 == set_flag(s.regs, FlagZ, r = 0)
        r2 == set_flag(r1, FlagN, FALSE)
        r3 == set_flag(r2, FlagC, c)
        r4 == set_flag(r3, FlagH, FALSE)
    IN  [res |-> r, s |-> [s EXCEPT !.regs = r4]]

\* Variant of alu_sub: the borrow out is also reported when A equals the
\* subtrahend.
alu_sub_borrow_on_equal(s, d8, use_carry) ==
    LET c  == IF use_carry /\ get_flag(s.regs, FlagC) THEN 1 ELSE 0
        a  == s.regs.a
        r  == WrapSub8(WrapSub8(a, d8), c)
        r1 == set_flag(s.regs, FlagZ, r = 0)
        r2 == set_flag(r1, FlagH, (a % 16) < ((d8 % 16) + c))
        r3 == set_flag(r2, FlagN, TRUE)
        r4 == set_flag(r3, FlagC, a <= (d8 + c))
    IN  [s EXCEPT !.regs = r4]

\* Cpu::_alu_sub: flags only; A is left as it was.
alu_sub(s, d8, use_carry) ==
    LET c  == IF use_carry /\ get_flag(s.regs, FlagC) THEN 1 ELSE 0
        a  == s.regs.a
        r  == WrapSub8(WrapSub8(a, d8), c)
        r1 == set_flag(s.regs, FlagZ, r = 0)
        r2 == set_flag(r1, FlagH, (a % 16) < ((d8 % 16) + c))
        r3 == set_flag(r2, FlagN, TRUE)
        r4 == set_flag(r3, FlagC, a < (d8 + c))
    IN  [s EXCEPT !.regs = r4]

\* Cpu::_alu_cp
alu_cp(s, d8) ==
    LET prev_a == s.regs.a
        s1     == alu_sub(s, d8, FALSE)
    IN  [s1 EXCEPT !.regs.a = prev_a]

\* Variant of alu_xor: the carry flag is left as it was.
alu_xor_keeps_carry(s, d8) ==
    LET a  == Xor8(s.regs.a, d8)
        r0 == [s.regs EXCEPT !.a = a]
        r1 == set_flag(r0, FlagZ, a = 0)
        r2 == set_flag(r1, FlagN, FALSE)
        r3 == set_flag(r2, FlagH, FALSE)
    IN  [s EXCEPT !.regs = r3]

\* Cpu::_alu_xor
alu_xor(s, d8) ==
    LET a  == Xor8(s.regs.a, d8)
        r0 == [s.regs EXCEPT !.a = a]
        r1 == set_flag(r0, FlagZ, a = 0)
        r2 == set_flag(r1, FlagN, FALSE)
        r3 == set_flag(r2, FlagH, FALSE)
        r4 == set_flag(r3, FlagC, FALSE)
    IN  [s EXCEPT !.regs = r4]

\* Variant of get_res_from_cc: every condition is negated.
get_res_from_cc_inverted(s, cc) ==
    CASE cc = 0 -> get_flag(s.regs, FlagZ)
      [] cc = 1 -> ~get_flag(s.regs, FlagZ)
      [] cc = 2 -> get_flag(s.regs, FlagC)
      [] cc = 3 -> ~get_flag(s.regs, FlagC)

\* Cpu::_get_res_from_cc
get_res_from_cc(s, cc) ==
    CASE cc = 0 -> ~get_flag(s.regs, FlagZ)
      [] cc = 1 -> get_flag(s.regs, FlagZ)
      [] cc = 2 -> ~get_flag(s.regs, FlagC)
      [] cc = 3 -> get_flag(s.regs, FlagC)

\* Variant of AsI8: the displacement is taken as unsigned.
AsI8_unsigned(d8) == d8

\* `d8 as i8`
AsI8(d8) == IF d8 >= 128 THEN d8 - 256 ELSE d8

\* Cpu::_run_opcode_cb: [res, s], res the cycle count returned.
run_opcode_cb(s, opcode) ==
    LET x == op_x(opcode)  y == op_y(opcode)  z == op_z(opcode)
        base == ncycles(opcode)[1]
    IN  IF x = 0 /\ y = 2 THEN                      \* RL r[z]
            LET n == alu_rl(s, get_r8_from_r(s, z))
            IN  [res |-> base, s |-> set_r8_from_r(n.s, z, n.res)]
        ELSE IF x = 1 THEN                          \* BIT y, r[z]
            LET r  == get_r8_from_r(s, z)
                r1 == set_flag(s.regs, FlagZ, Bit(r, y) = 0)
                r2 == set_flag(r1, FlagN, FALSE)
                r3 == set_flag(r2, FlagH, TRUE)
            IN  [res |-> base, s |-> [s EXCEPT !.regs = r3]]
        ELSE [res |-> base,
              s   |-> Panic(s, "cb-prefixed opcode not implemented")]

\* Cpu::_run_opcode_un: [res, s]; the arms of the match, in order.
run_opcode_un(s, opcode) ==
    LET x == op_x(opcode)  y == op_y(opcode)  z == op_z(opcode)
        p == op_p(opcode)  q == op_q(opcode)
        base == ncycles(opcode)[1]
        alt  == ncycles(opcode)[2]
        done(t) == [res |-> base, s |-> t]
    IN  IF x = 0 /\ z = 1 /\ q = 0 THEN             \* LD rp[p], nn
            LET nn == fetch_next_word(s)
            IN  done(Then(nn.s, LAMBDA t : set_r16_from_rp(t, p, nn.res)))
        ELSE IF x = 0 /\ z = 2 /\ p = 0 /\ q = 1 THEN   \* LD A,(BC)
            done([s EXCEPT !.regs.a = read_byte(s.mmu, bc(s.regs))])
        ELSE IF x = 0 /\ z = 2 /\ p = 1 /\ q = 1 THEN   \* LD A,(DE)
            done([s EXCEPT !.regs.a = read_byte(s.mmu, de(s.regs))])
        ELSE IF x = 0 /\ z = 2 /\ p = 2 /\ q = 0 THEN   \* LD (HL+), A
            done([s EXCEPT !.mmu = write_byte(@, hl(s.regs), s.regs.a),
                           !.regs = inc_hl(@)])
        ELSE IF x = 0 /\ z = 2 /\ p = 3 /\ q = 0 THEN   \* LD (HL-), A
            done([s EXCEPT !.mmu = write_byte(@, hl(s.regs), s.regs.a),
                           !.regs = dec_hl(@)])
        ELSE IF x = 0 /\ z = 3 /\ q = 0 THEN        \* INC rp[p]
            LET nn == get_r16_from_rp(s, p)
                rp == WrapAdd16(nn, 1)
            IN  done(set_r16_from_rp(s, p, rp))
        ELSE IF x = 0 /\ z = 4 THEN                 \* INC r[y]
            LET n  == get_r8_from_r(s, y)
                r  == WrapAdd8(n, 1)
                s1 == set_r8_from_r(s, y, r)
                r1 == set_flag(s1.regs, FlagZ, r = 0)
                r2 == set_flag(r1, FlagN, FALSE)
                r3 == set_flag(r2, FlagH, (n % 16) = 15)
            IN  done([s1 EXCEPT !.regs = r3])
        ELSE IF x = 0 /\ z = 5 THEN                 \* DEC r[y]
            LET n  == get_r8_from_r(s, y)
                r  == WrapSub8(n, 1)
                s1 == set_r8_from_r(s, y, r)
                r1 == set_flag(s1.regs, FlagZ, r = 0)
                r2 == set_flag(r1, FlagN, TRUE)
                r3 == set_flag(r2, FlagH, (n % 16) = 0)
            IN  done([s1 EXCEPT !.regs = r3])
        ELSE IF x = 0 /\ z = 6 THEN                 \* LD r[y], n
            LET n == fetch_next_byte(s)
            IN  done(set_r8_from_r(n.s, y, n.res))
        ELSE IF x = 0 /\ y = 2 /\ z = 7 THEN        \* RLA
            LET n == alu_rl(s, s.regs.a)
            IN  done(set_r8_from_r(n.s, z, n.res))
        ELSE IF x = 0 /\ y \in 4..7 /\ z = 0 THEN   \* JR cc[y-4], d
            LET d8 == fetch_next_byte(s)
                pc == (d8.s.regs.pc + AsI8(d8.res) + 65536) % 65536
            IN  IF get_res_from_cc(d8.s, y - 4)
                THEN [res |-> base, s |-> [d8.s EXCEPT !.regs.pc = pc]]
                ELSE [res |-> alt, s |-> d8.s]
        ELSE IF x = 1 /\ y = 6 /\ z = 6 THEN        \* HALT
            done([s EXCEPT !.is_halted = TRUE])
        ELSE IF x = 1 THEN                          \* LD r[y], r[z]
            done(set_r8_from_r(s, y, get_r8_from_r(s, z)))
        ELSE IF x = 2 /\ y = 5 THEN                 \* XOR r[z]
            done(alu_xor(s, get_r8_from_r(s, z)))
        ELSE IF x = 3 /\ z = 1 /\ p = 0 /\ q = 1 THEN   \* RET
            LET w == stack_pop(s)
            IN  done(Then(w.s, LAMBDA t : [t EXCEPT !.regs.pc = w.res]))
        ELSE IF x = 3 /\ z = 1 /\ q = 0 THEN        \* POP rp2[p]
            LET nn == stack_pop(s)
            IN  done(Then(nn.s, LAMBDA t : set_r16_from_rp2(t, p, nn.res)))
        ELSE IF x = 3 /\ z = 5 /\ p = 0 /\ q = 1 THEN   \* CALL nn
            LET nn == fetch_next_word(s)
                s1 == Then(nn.s, LAMBDA t : stack_push(t, t.regs.pc))
            IN  done(Then(s1, LAMBDA t : [t EXCEPT !.regs.pc = nn.res]))
        ELSE IF x = 3 /\ z = 5 /\ q = 0 THEN        \* PUSH rp2[p]
            done(stack_push(s, get_r16_from_rp2(s, p)))
        ELSE IF x = 3 /\ y = 1 /\ z = 3 THEN        \* prefix: next opcode is cb
            done([s EXCEPT !.next_opcode_is_cb = TRUE])
        ELSE IF x = 3 /\ y = 4 /\ z = 0 THEN        \* LD (0xff00 + n),A
            LET n == fetch_next_byte(s)
            IN  done([n.s EXCEPT !.mmu = write_byte(@, 65280 + n.res, s.regs.a)])
        ELSE IF x = 3 /\ y = 4 /\ z = 2 THEN        \* LD (0xff00 + C),A
            done([s EXCEPT !.mmu = write_byte(@, 65280 + s.regs.c, s.regs.a)])
        ELSE IF x = 3 /\ y = 7 THEN                 \* CP d8
            LET n == fetch_next_byte(s)
            IN  done(alu_cp(n.s, n.res))
        ELSE done(Panic(s, "un-prefixed opcode not implemented"))

\* Variant of fetch_decode_execute: the latch is left set by a cb decode.
fetch_decode_execute_keeps_latch(s) ==
    LET f  == fetch_next_byte(s)
        oc == OpcodeFrom(s.next_opcode_is_cb, f.res)
        s1 == [f.s EXCEPT !.curr_opcode = oc]
    IN  IF oc = None
        THEN [res |-> 0, s |-> Panic(s1, "got an invalid opcode")]
        ELSE IF s1.next_opcode_is_cb
             THEN run_opcode_cb(s1, oc)
             ELSE run_opcode_un(s1, oc)

\* Cpu::step past the halt check: fetch, decode, execute.  [res, s]; res is
\* the returned cycle count, meaningless (the call never returns) when
\* s.panic is set.
fetch_decode_execute(s) ==
    LET f  == fetch_next_byte(s)
        oc == OpcodeFrom(s.next_opcode_is_cb, f.res)
        s1 == [f.s EXCEPT !.curr_opcode = oc]
    IN  IF oc = None
        THEN [res |-> 0, s |-> Panic(s1, "got an invalid opcode")]
        ELSE IF s1.next_opcode_is_cb
             THEN run_opcode_cb([s1 EXCEPT !.next_opcode_is_cb = FALSE], oc)
             ELSE run_opcode_un(s1, oc)

\* Variant of cpu_step: the halt flag is not consulted.
cpu_step_ignores_halt(s) == fetch_decode_execute(s)

\* Cpu::step: [res, s].
cpu_step(s) ==
    IF s.is_halted THEN [res |-> 1, s |-> s]
    ELSE fetch_decode_execute(s)

\* Gpu::step: the body is a TODO; the mode is left as it was.
gpu_step(m, n) == m

\* System::step
system_step(s) ==
    LET r == cpu_step(s)
    IN  [res |-> r.res,
         s   |-> Then(r.s, LAMBDA t : [t EXCEPT !.mmu = gpu_step(@, r.res)])]

---------------------------------------------------------------------------
(* The system as a state machine.  The callers of the API are the driver   *)
(* (System::step) and a harness in the manner of the unit tests, which     *)
(* build a Cpu and an Mmu, assign registers, write instruction bytes       *)
(* through the Mmu and step the Cpu.                                       *)

\* Register values the harness starts the Cpu from (the unit tests assign
\* cpu.regs fields directly); RegsDefault, with PC = 0, is power-on.
InitPC  == {0, 8, 49152, 65534}
InitSP  == {0, 1, 2, 49154, 53248, 65534}
InitGPR == {[a |-> 0, f |-> 0, b |-> 0, c |-> 0, d |-> 0, e |-> 0,
             h |-> 0, l |-> 0],
            [a |-> 154, f |-> 176, b |-> 18, c |-> 52, d |-> 86, e |-> 120,
             h |-> 192, l |-> 1]}
InitRegs ==
    {[a |-> g.a, f |-> g.f, b |-> g.b, c |-> g.c, d |-> g.d, e |-> g.e,
      h |-> g.h, l |-> g.l, pc |-> pc, sp |-> sp] :
        g \in InitGPR, pc \in InitPC, sp \in InitSP}

\* Instruction bytes the harness loads at the start PC: HALT, the cb prefix,
\* 0x7C (LD A,H / BIT 7,H), 0xD3 (no table entry), PUSH / POP of the four
\* pairs, LD SP,nn.
ProgBytes == {118, 203, 124, 211, 197, 193, 213, 209, 229, 225, 245, 241, 49}

\* Addresses and values of the Mmu calls made from outside the Cpu: the
\* first and last address of every region, and their neighbours.
ApiAddrs == {0, 255, 40959, 49152, 57343, 57344, 65023, 65408, 65534, 65535}
ApiBytes == {16, 66}
ApiWords == {4128}

\* The machine record of the variables.
machine == [regs |-> regs, is_halted |-> is_halted,
            next_opcode_is_cb |-> next_opcode_is_cb,
            curr_opcode |-> curr_opcode, mmu |-> mmu, panic |-> ""]

\* History record of one API call: its arguments, its result, and the
\* registers, latch and halt flag it started from.
Call(op, addr, val, ret, opcode) ==
    [op |-> op, addr |-> addr, val |-> val, ret |-> ret, opcode |-> opcode,
     before |-> regs, cb |-> next_opcode_is_cb, halted |-> is_halted]
\* History record of a call that runs the Cpu, with the memory it started
\* from.  addr is the PC it started at, val the opcode byte (for a step, the
\* byte at that PC) and opcode the entry decoded (None when it decoded
\* nothing).
CpuCall(op, addr, val, ret, opcode) ==
    [op |-> op, addr |-> addr, val |-> val, ret |-> ret, opcode |-> opcode,
     before |-> regs, cb |-> next_opcode_is_cb, halted |-> is_halted,
     mem |-> mmu]
NoCall == [op |-> "none"]

InitWith(r) ==
    /\ regs = r
    /\ is_halted = CpuNew.is_halted
    /\ next_opcode_is_cb = CpuNew.next_opcode_is_cb
    /\ curr_opcode = CpuNew.curr_opcode
    /\ is_bios_mapped = MmuNew.is_bios_mapped
    /\ vram = MmuNew.vram
    /\ wram = MmuNew.wram
    /\ zram = MmuNew.zram
    /\ curr_mode = MmuNew.curr_mode
    /\ overflow_checks \in BOOLEAN
    /\ panicked = ""
    /\ last_call = NoCall
    /\ prev_call = NoCall
    /\ ncalls = 0

\* The state after construction and set-up: registers r, interconnect m.
InitOn(r, m) ==
    /\ regs = r
    /\ is_halted = CpuNew.is_halted
    /\ next_opcode_is_cb = CpuNew.next_opcode_is_cb
    /\ curr_opcode = CpuNew.curr_opcode
    /\ is_bios_mapped = m.is_bios_mapped
    /\ vram = m.vram
    /\ wram = m.wram
    /\ zram = m.zram
    /\ curr_mode = m.curr_mode
    /\ overflow_checks \in BOOLEAN
    /\ panicked = ""
    /\ last_call = NoCall
    /\ prev_call = NoCall
    /\ ncalls = 0

\* The process is alive.
Alive == panicked = ""

\* last_call is the call just made; prev_call the one before it when both
\* are steps of the Cpu.
Record(call) ==
    /\ last_call' = call
    /\ prev_call' = IF call.op = "step" /\ last_call.op = "step"
                    THEN last_call ELSE NoCall

SetMmu(m) ==
    /\ is_bios_mapped' = m.is_bios_mapped
    /\ vram' = m.vram
    /\ wram' = m.wram
    /\ zram' = m.zram
    /\ curr_mode' = m.curr_mode

SetMachine(s) ==
    /\ regs' = s.regs
    /\ is_halted' = s.is_halted
    /\ next_opcode_is_cb' = s.next_opcode_is_cb
    /\ curr_opcode' = s.curr_opcode
    /\ SetMmu(s.mmu)
    /\ panicked' = s.panic

\* System::step(): one Cpu::step, its cycle count handed to Gpu::step.
Step ==
    /\ Alive /\ ncalls < MaxCalls
    /\ LET r == system_step(machine)
       IN  /\ SetMachine(r.s)
           /\ Record(CpuCall("step", regs.pc, read_byte(mmu, regs.pc), r.res,
                              IF is_halted THEN None ELSE r.s.curr_opcode))
    /\ ncalls' = ncalls + 1
    /\ UNCHANGED overflow_checks

\* Test set-up: before the first step, mmu.write_byte(PC + i, val) puts an
\* instruction byte at one of the first MaxProg addresses from the start PC.
Load ==
    /\ Alive /\ ncalls = 0
    /\ \E i \in 0..(MaxProg - 1), val \in ProgBytes :
          SetMmu(write_byte(mmu, (regs.pc + i) % 65536, val))
    /\ UNCHANGED <<regs, is_halted, next_opcode_is_cb, curr_opcode,
                   overflow_checks, panicked, last_call, prev_call, ncalls>>

\* mmu.write_byte(addr, val)
WriteByte ==
    /\ Alive /\ ncalls < MaxCalls
    /\ \E addr \in ApiAddrs, val \in ApiBytes :
          /\ SetMmu(write_byte(mmu, addr, val))
          /\ Record(Call("write_byte", addr, val, 0, None))
    /\ ncalls' = ncalls + 1
    /\ UNCHANGED <<regs, is_halted, next_opcode_is_cb, curr_opcode,
                   overflow_checks, panicked>>

\* mmu.write_word(addr, d16)
WriteWord ==
    /\ Alive /\ ncalls < MaxCalls
    /\ \E addr \in ApiAddrs, d16 \in ApiWords :
          /\ SetMmu(write_word(mmu, addr, d16))
          /\ panicked' = IF AddrPlusOneOverflows(addr)
                         THEN "attempt to add with overflow" ELSE ""
          /\ Record(Call("write_word", addr, d16, 0, None))
    /\ ncalls' = ncalls + 1
    /\ UNCHANGED <<regs, is_halted, next_opcode_is_cb, curr_opcode,
                   overflow_checks>>

\* mmu.read_byte(addr)
ReadByte ==
    /\ Alive /\ ncalls < MaxCalls
    /\ \E addr \in ApiAddrs :
          Record(Call("read_byte", addr, 0, read_byte(mmu, addr), None))
    /\ ncalls' = ncalls + 1
    /\ UNCHANGED <<regs, is_halted, next_opcode_is_cb, curr_opcode,
                   is_bios_mapped, vram, wram, zram, curr_mode,
                   overflow_checks, panicked>>

\* mmu.read_word(addr)
ReadWord ==
    /\ Alive /\ ncalls < MaxCalls
    /\ \E addr \in ApiAddrs :
          /\ panicked' = IF AddrPlusOneOverflows(addr)
                         THEN "attempt to add with overflow" ELSE ""
          /\ Record(Call("read_word", addr, 0,
                         IF AddrPlusOneOverflows(addr) THEN 0
                         ELSE read_word(mmu, addr), None))
    /\ ncalls' = ncalls + 1
    /\ UNCHANGED <<regs, is_halted, next_opcode_is_cb, curr_opcode,
                   is_bios_mapped, vram, wram, zram, curr_mode,
                   overflow_checks>>

\* mmu.unmap_bios()
UnmapBios ==
    /\ Alive /\ ncalls < MaxCalls
    /\ SetMmu(unmap_bios(mmu))
    /\ Record(Call("unmap_bios", 0, 0, 0, None))
    /\ ncalls' = ncalls + 1
    /\ UNCHANGED <<regs, is_halted, next_opcode_is_cb, curr_opcode,
                   overflow_checks, panicked>>

\* The Cpu under the harness: registers assigned, a program loaded, then
\* steps of the system, the overlay unmapped at any point.
Init == \E r \in InitRegs : InitWith(r)
Next == Step \/ Load \/ UnmapBios
Spec == Init /\ [][Next]_vars

\* The interconnect from power-on: any calls of its API, and steps of the
\* system running the overlay.
InitMmu == InitWith(RegsDefault)
NextMmu == WriteByte \/ WriteWord \/ ReadByte \/ ReadWord \/ UnmapBios \/ Step
SpecMmu == InitMmu /\ [][NextMmu]_vars

---------------------------------------------------------------------------
(* The unit tests of cpu.rs: a fresh Cpu and Mmu, registers assigned, then  *)
(* direct calls of _run_opcode_un on a decoded opcode.                     *)

\* The sixteen values of the flag nibble of F, and the ones the value sweep
\* is run with.
AllFlags == {16 * k : k \in 0..15}
AluFlags == {0, 16, 224, 240}
\* Operand values at the nibble and byte boundaries.
AluEdge  == {0, 1, 15, 16, 255}

\* Every 8-bit register, and both bytes of every pair, hold v.
Diag(v, f) ==
    [a |-> v, f |-> f, b |-> v, c |-> v, d |-> v, e |-> v, h |-> v, l |-> v,
     pc |-> 0, sp |-> v * 257]
\* Every pair holds 0x00vv.
Low(v, f) ==
    [a |-> v, f |-> f, b |-> 0, c |-> v, d |-> 0, e |-> v, h |-> 0, l |-> v,
     pc |-> 0, sp |-> v]
\* HL addresses working RAM; the other registers hold v.
Ram(v, f) ==
    [a |-> v, f |-> f, b |-> v, c |-> v, d |-> v, e |-> v, h |-> 192, l |-> 1,
     pc |-> 0, sp |-> 53248]
\* The operands of test_alu_xor (A = 0x0F against 0xF0 and 0x0F).
XorTest(f) ==
    [a |-> 15, f |-> f, b |-> 240, c |-> 15, d |-> 255, e |-> 85, h |-> 192,
     l |-> 1, pc |-> 0, sp |-> 53248]

AluRegs ==
    {Diag(v, f) : v \in 0..255, f \in AluFlags}
    \cup {Low(v, f) : v \in AluEdge, f \in AllFlags}
    \cup {Ram(v, f) : v \in AluEdge, f \in AllFlags}
    \cup {XorTest(f) : f \in AllFlags}

\* The opcodes the tests run: INC r[y], DEC r[y], INC rp[p], XOR r[z].
INC_R(y)  == 4 + 8 * y
DEC_R(y)  == 5 + 8 * y
INC_RP(p) == 3 + 16 * p
XOR_R(z)  == 168 + z
AluBytes ==
    {INC_R(y) : y \in 0..7} \cup {DEC_R(y) : y \in 0..7}
    \cup {INC_RP(p) : p \in 0..3} \cup {XOR_R(z) : z \in 0..7}

\* cpu._run_opcode_un(&mut mmu, Opcode::from(false, byte).unwrap())
RunOpcodeUn ==
    /\ Alive /\ ncalls < MaxRuns
    /\ \E byte \in AluBytes :
          LET oc == OpcodeFrom(FALSE, byte)
              r  == run_opcode_un(machine, oc)
          IN  /\ SetMachine(r.s)
              /\ Record(CpuCall("run_opcode_un", regs.pc, byte, r.res, oc))
    /\ ncalls' = ncalls + 1
    /\ UNCHANGED overflow_checks

\* Test set-up: mmu.write_byte(cpu.regs.hl(), cpu.regs.a) puts the operand
\* value in the cell HL addresses.
LoadOperand ==
    /\ Alive /\ ncalls = 0
    /\ SetMmu(write_byte(mmu, hl(regs), regs.a))
    /\ UNCHANGED <<regs, is_halted, next_opcode_is_cb, curr_opcode,
                   overflow_checks, panicked, last_call, prev_call, ncalls>>

InitAlu == \E r \in AluRegs : InitWith(r)
NextAlu == RunOpcodeUn \/ LoadOperand
SpecAlu == InitAlu /\ [][NextAlu]_vars

---------------------------------------------------------------------------
(* Jumps and calls: the Cpu stepped over one instruction written at the    *)
(* start PC, its operand byte any 8-bit value.                             *)

JumpFlags == {0, 16, 128, 240}
JumpPC    == {49152, 65533, 65534}
JumpSP    == {1, 2, 53248}
JumpRegs ==
    {[a |-> 0, f |-> f, b |-> 0, c |-> 0, d |-> 0, e |-> 0, h |-> 0, l |-> 0,
      pc |-> pc, sp |-> sp] : f \in JumpFlags, pc \in JumpPC, sp \in JumpSP}

\* JR NZ / Z / NC / C, CALL nn, RET.
JR(cc) == [cb |-> FALSE, byte |-> 32 + 8 * cc]
CALL   == [cb |-> FALSE, byte |-> 205]
RET    == [cb |-> FALSE, byte |-> 201]
JumpBytes == {JR(cc).byte : cc \in 0..3} \cup {CALL.byte, RET.byte}

\* Test set-up on a fresh Mmu: mmu.write_byte(PC, opcode byte) and
\* mmu.write_byte(PC + 1, d), the instruction and its operand byte.
LoadInstr ==
    /\ Alive /\ ncalls = 0 /\ mmu = MmuNew
    /\ \E val \in JumpBytes, d \in 0..255 :
          SetMmu(write_byte(write_byte(mmu, regs.pc, val),
                            (regs.pc + 1) % 65536, d))
    /\ UNCHANGED <<regs, is_halted, next_opcode_is_cb, curr_opcode,
                   overflow_checks, panicked, last_call, prev_call, ncalls>>

InitJump == \E r \in JumpRegs : InitWith(r)
NextJump == Step \/ LoadInstr
SpecJump == InitJump /\ [][NextJump]_vars

---------------------------------------------------------------------------
(* Video timing: the system from power-on, and Gpu::step called directly   *)
(* (Mmu.gpu is a public field).                                            *)

\* Cycle counts handed to Gpu::step: the costs Cpu::step returns, and spans
\* up to the 114 cycle-units of a line and the 17556 of a frame.
GpuCycles == {1, 2, 3, 4, 6, 20, 43, 51, 114, 1140, 16416, 17556}

\* mmu.gpu.step(n)
GpuStep ==
    /\ Alive
    /\ \E n \in GpuCycles :
          /\ SetMmu(gpu_step(mmu, n))
          /\ Record(Call("gpu_step", 0, n, 0, None))
    /\ UNCHANGED <<regs, is_halted, next_opcode_is_cb, curr_opcode,
                   overflow_checks, panicked, ncalls>>

\* Steps of the system and of the Gpu; the Gpu is stepped again and again
\* (the driver calls System::step in an unbounded loop).
NextGpu == Step \/ GpuStep
SpecGpu == InitMmu /\ [][NextGpu]_vars /\ WF_vars(GpuStep)

---------------------------------------------------------------------------
(* Compare: a fresh Cpu and Mmu, A and F assigned and the operand byte     *)
(* written at PC, then _run_opcode_un called on the CP d8 opcode.          *)

CpFlags == {0, 240}
CpRegs  ==
    {[RegsDefault EXCEPT !.a = a, !.f = f, !.pc = 49152] :
        a \in 0..255, f \in CpFlags}
CP_N == 254

\* cpu._run_opcode_un(&mut mmu, Opcode::from(false, 0xfe).unwrap())
RunCp ==
    /\ Alive /\ ncalls < MaxRuns
    /\ LET oc == OpcodeFrom(FALSE, CP_N)
           r  == run_opcode_un(machine, oc)
       IN  /\ SetMachine(r.s)
           /\ Record(CpuCall("run_opcode_un", regs.pc, CP_N, r.res, oc))
    /\ ncalls' = ncalls + 1
    /\ UNCHANGED overflow_checks

\* The set-up wrote the operand with mmu.write_byte(cpu.regs.pc, n).
InitCp ==
    \E r \in CpRegs, n \in 0..255 : InitOn(r, write_byte(MmuNew, r.pc, n))
NextCp == RunCp
SpecCp == InitCp /\ [][NextCp]_vars

---------------------------------------------------------------------------
(* Rotates: the register sweep of the unit tests, then a direct call of    *)
(* _run_opcode_un on RLA or of _run_opcode_cb on RL r[z].                  *)

RLA     == 23
RL_R(z) == 16 + z

\* cpu._run_opcode_un(&mut mmu, Opcode::from(false, 0x17).unwrap())
RunRla ==
    /\ Alive /\ ncalls < MaxRuns
    /\ LET oc == OpcodeFrom(FALSE, RLA)
           r  == run_opcode_un(machine, oc)
       IN  /\ SetMachine(r.s)
           /\ Record(CpuCall("run_opcode_un", regs.pc, RLA, r.res, oc))
    /\ ncalls' = ncalls + 1
    /\ UNCHANGED overflow_checks

\* cpu._run_opcode_cb(&mut mmu, Opcode::from(true, byte).unwrap())
RunOpcodeCb ==
    /\ Alive /\ ncalls < MaxRuns
    /\ \E z \in 0..7 :
          LET oc == OpcodeFrom(TRUE, RL_R(z))
              r  == run_opcode_cb(machine, oc)
          IN  /\ SetMachine(r.s)
              /\ Record(CpuCall("run_opcode_cb", regs.pc, RL_R(z), r.res, oc))
    /\ ncalls' = ncalls + 1
    /\ UNCHANGED overflow_checks

NextRot == RunRla \/ RunOpcodeCb \/ LoadOperand
SpecRot == InitAlu /\ [][NextRot]_vars

---------------------------------------------------------------------------
(* The byte-pair counters: as in tests::test_dec_r16 and test_inc_r16, a   *)
(* register file with the pairs assigned, then a direct call of a counter; *)
(* and the two loads that post-increment and post-decrement HL.            *)

\* The pair values: every low byte with the high byte at both ends of the
\* range, in the middle and in working RAM; and every high byte with the
\* low byte at and next to the ends of its range.
PairHigh  == {0, 127, 192, 255}
PairLow   == {0, 1, 254, 255}
PairFlags == {0, 240}
PairOf(hi, lo, f) ==
    [a |-> 90, f |-> f, b |-> hi, c |-> lo, d |-> hi, e |-> lo, h |-> hi,
     l |-> lo, pc |-> 0, sp |-> 0]
PairRegs ==
    {PairOf(hi, lo, f) : hi \in PairHigh, lo \in 0..255, f \in PairFlags}
    \cup {PairOf(hi, lo, f) : hi \in 0..255, lo \in PairLow, f \in PairFlags}

\* regs.dec_bc(), regs.dec_de(), regs.dec_hl(), regs.inc_hl()
RegsCall(op, r) ==
    /\ Alive /\ ncalls < MaxRuns
    /\ regs' = r
    /\ Record(Call(op, 0, 0, 0, None))
    /\ ncalls' = ncalls + 1
    /\ UNCHANGED <<is_halted, next_opcode_is_cb, curr_opcode, is_bios_mapped,
                   vram, wram, zram, curr_mode, overflow_checks, panicked>>
DecBc == RegsCall("dec_bc", dec_bc(regs))
DecDe == RegsCall("dec_de", dec_de(regs))
DecHl == RegsCall("dec_hl", dec_hl(regs))
IncHl == RegsCall("inc_hl", inc_hl(regs))

LD_HLI_A == 34
LD_HLD_A == 50

\* cpu._run_opcode_un(&mut mmu, Opcode::from(false, byte).unwrap()) for
\* LD (HL+),A and LD (HL-),A
RunLdHl ==
    /\ Alive /\ ncalls < MaxRuns
    /\ \E byte \in {LD_HLI_A, LD_HLD_A} :
          LET oc == OpcodeFrom(FALSE, byte)
              r  == run_opcode_un(machine, oc)
          IN  /\ SetMachine(r.s)
              /\ Record(CpuCall("run_opcode_un", regs.pc, byte, r.res, oc))
    /\ ncalls' = ncalls + 1
    /\ UNCHANGED overflow_checks

InitPair == \E r \in PairRegs : InitWith(r)
NextPair == DecBc \/ DecDe \/ DecHl \/ IncHl \/ RunLdHl
SpecPair == InitPair /\ [][NextPair]_vars

---------------------------------------------------------------------------
(* Single instructions: a fresh system with registers assigned and two     *)
(* bytes written at PC (an opcode, then its operand or the next opcode),   *)
(* stepped by the driver.                                                  *)

\* The stores (LD (0xff00+n),A, LD (0xff00+C),A, LD (HL+),A, LD (HL-),A,
\* PUSH AF) and the eight primary bytes with x = 3 and y = 7.
StoreBytes == {224, 226, 34, 50, 245}
X3Y7Bytes  == {248 + z : z \in 0..7}
InstrBytes == StoreBytes \cup X3Y7Bytes
\* The second byte: an I/O-page offset, a compare operand, or an opcode.
InstrOperands == {0, 60, 80, 226, 254}

\* A holds a non-zero byte; C an I/O-page offset; HL and SP address the I/O
\* page or the top of the overlay range.
InstrRegs ==
    {[a |-> a, f |-> f, b |-> 0, c |-> 80, d |-> 0, e |-> 0,
      h |-> hx \div 256, l |-> hx % 256, pc |-> 49152, sp |-> sp] :
        a \in {1, 60}, f \in {0, 240}, hx \in {255, 65360},
        sp \in {256, 65362}}

\* The set-up wrote the two bytes with mmu.write_byte.
InitInstr ==
    \E r \in InstrRegs, byte \in InstrBytes, n \in InstrOperands :
       InitOn(r, write_byte(write_byte(MmuNew, r.pc, byte), r.pc + 1, n))
NextInstr == Step
SpecInstr == InitInstr /\ [][NextInstr]_vars

---------------------------------------------------------------------------
(* The flag accessors: as in tests::test_flag, a register file and direct  *)
(* calls of set_flag; F (a public field) starts at any byte value.         *)

Flags    == {FlagZ, FlagN, FlagH, FlagC}
FlagRegs == {[RegsDefault EXCEPT !.f = f] : f \in 0..255}

\* regs.set_flag(flag, set)
SetFlag ==
    /\ Alive /\ ncalls < MaxRuns
    /\ \E flag \in Flags, set \in BOOLEAN :
          /\ regs' = set_flag(regs, flag, set)
          /\ Record([op |-> "set_flag", flag |-> flag, set |-> set,
                     before |-> regs])
    /\ ncalls' = ncalls + 1
    /\ UNCHANGED <<is_halted, next_opcode_is_cb, curr_opcode, is_bios_mapped,
                   vram, wram, zram, curr_mode, overflow_checks, panicked>>

InitFlag == \E r \in FlagRegs : InitWith(r)
NextFlag == SetFlag
SpecFlag == InitFlag /\ [][NextFlag]_vars

---------------------------------------------------------------------------
(* Properties.                                                             *)

\* The transition is a call of step that fetches (the Cpu is not halted).
FetchStep ==
    /\ ncalls' = ncalls + 1
    /\ last_call'.op = "step"
    /\ ~is_halted

\* The transition is a call of step made while the Cpu is halted.
HaltedStep ==
    /\ ncalls' = ncalls + 1
    /\ last_call'.op = "step"
    /\ is_halted

HALT   == [cb |-> FALSE, byte |-> 118]
PREFIX == [cb |-> FALSE, byte |-> 203]

\* C1: Halted is absorbing.  A step that executes HALT halts the Cpu; no
\* call of any kind un-halts it; and every step made while halted returns 1
\* and performs no fetch: PC, SP, the 8-bit registers, the flags, the latch
\* and all memory are as before.
C1_HaltedIsAbsorbing ==
    [][ /\ (FetchStep /\ curr_opcode' = HALT) => is_halted'
        /\ is_halted => is_halted'
        /\ HaltedStep =>
              /\ last_call'.ret = 1
              /\ regs' = regs
              /\ next_opcode_is_cb' = next_opcode_is_cb
              /\ curr_opcode' = curr_opcode
              /\ mmu' = mmu
              /\ panicked' = "" ]_vars

\* C1 witness: a step has been made while halted, after the step that
\* executed HALT.
C1_Witness ==
    /\ is_halted
    /\ curr_opcode = HALT
    /\ last_call.op = "step" /\ last_call.halted /\ last_call.ret = 1
    /\ prev_call.op = "step" /\ prev_call.halted

\* C2: the secondary-space latch is single-shot.  A fetched byte is decoded
\* in the secondary space if and only if the entry decoded by the preceding
\* step is the primary prefix 0xCB; a secondary decode leaves the latch
\* clear, and the latch is set exactly when the entry just decoded is the
\* primary prefix.
C2_LatchIsSingleShot ==
    [][ FetchStep =>
          /\ (curr_opcode' # None /\ curr_opcode'.cb) <=> (curr_opcode = PREFIX)
          /\ (curr_opcode' # None /\ curr_opcode'.cb) => ~next_opcode_is_cb'
          /\ next_opcode_is_cb' <=> (curr_opcode' = PREFIX) ]_vars

\* C2 witness: three steps in a row: the prefix, a byte decoded in the
\* secondary space, then a byte decoded in the primary space.
C2_Witness ==
    /\ last_call.op = "step" /\ prev_call.op = "step"
    /\ prev_call.cb /\ prev_call.opcode # None /\ prev_call.opcode.cb
    /\ ~last_call.cb /\ last_call.opcode # None /\ ~last_call.opcode.cb

\* The primary bytes with a table entry and an arm in the dispatch of
\* _run_opcode_un, and the secondary bytes with an arm in _run_opcode_cb.
HandledPrimary ==
    {1, 17, 33, 49} \cup {10, 26, 34, 50} \cup {3, 19, 35, 51}
    \cup {4, 12, 20, 28, 36, 44, 52, 60} \cup {5, 13, 21, 29, 37, 45, 53, 61}
    \cup {6, 14, 22, 30, 38, 46, 54, 62} \cup {23} \cup {32, 40, 48, 56}
    \cup (64..127) \cup (168..175) \cup {201} \cup {193, 209, 225, 241}
    \cup {205} \cup {197, 213, 229, 245} \cup {203} \cup {224, 226}
    \cup {248, 249, 250, 251, 254, 255}
HandledSecondary == (16..23) \cup (64..127)
Handled(is_cb, byte) ==
    IF is_cb THEN byte \in HandledSecondary ELSE byte \in HandledPrimary

ProbeAddrs ==
    {0, 1, 2, 128, 255, 256, 16384, 32767, 32768, 36864, 40959, 40960,
     49151, 49152, 49153, 53248, 56831, 56832, 57343, 57344, 57345, 61440,
     65022, 65023, 65024, 65279, 65280, 65407, 65408, 65409, 65533, 65534,
     65535}
ProbeBytes == {0, 1, 16, 66, 255}
ProbeWords == {0, 255, 4128, 43776, 65535}

\* An address with no backing region, as the address map states it.
Unbacked(addr) ==
    /\ ~(32768 <= addr /\ addr <= 40959)
    /\ ~(49152 <= addr /\ addr <= 65023)
    /\ ~(65408 <= addr /\ addr <= 65534)
    /\ ~(is_bios_mapped /\ addr <= 255)

\* C4: in every reachable memory state, for every address with no backing
\* region (the overlay range included once the overlay is unmapped),
\* read_byte returns 0x00 and write_byte changes no storage region and not
\* the overlay flag; and the calls the harness made behaved so.
C4_UnbackedReadsZeroWritesDiscarded ==
    /\ \A addr \in ProbeAddrs :
          Unbacked(addr) =>
             /\ read_byte(mmu, addr) = 0
             /\ \A val \in ProbeBytes : write_byte(mmu, addr, val) = mmu
    /\ (last_call.op = "read_byte" /\ Unbacked(last_call.addr))
          => last_call.ret = 0

\* C4 witness: a byte was written to the overlay range after the overlay
\* was unmapped, and the range still reads 0x00.
C4_Witness ==
    /\ ~is_bios_mapped
    /\ last_call.op = "write_byte" /\ last_call.addr = 255
    /\ read_byte(mmu, 255) = 0

\* C5: echo aliasing.  In every reachable memory state and for every offset
\* k of the echo range, 0xE000+k and 0xC000+k read the same byte, a byte
\* written through 0xE000+k is read back at 0xC000+k, and a byte written
\* through 0xC000+k is read back at 0xE000+k.
EchoOffsets == {0, 1, 4096, 7678, 7679}
C5_EchoAliasesWorkingRam ==
    \A k \in EchoOffsets :
       /\ read_byte(mmu, 57344 + k) = read_byte(mmu, 49152 + k)
       /\ \A val \in ProbeBytes :
             /\ read_byte(write_byte(mmu, 57344 + k, val), 49152 + k) = val
             /\ read_byte(write_byte(mmu, 49152 + k, val), 57344 + k) = val

\* C5 witness: a non-zero byte written through the last echo address is
\* read at the working RAM address it aliases.
C5_Witness ==
    /\ last_call.op = "write_byte" /\ last_call.addr = 65023
    /\ last_call.val # 0
    /\ read_byte(mmu, 56831) = last_call.val

\* C6: the overlay flag is set at power-on and only goes from set to
\* cleared: a call of unmap_bios leaves it cleared, and no later call of
\* read_byte, write_byte, read_word, write_word, unmap_bios or step sets it.
C6_OverlayNeverRemapped ==
    /\ is_bios_mapped = TRUE
    /\ [][ /\ (last_call'.op = "unmap_bios" /\ ncalls' = ncalls + 1)
                 => ~is_bios_mapped'
           /\ ~is_bios_mapped => ~is_bios_mapped' ]_vars

\* C6 witness: calls were made after the overlay was unmapped, the last of
\* them a second unmap_bios.
C6_Witness ==
    /\ ~is_bios_mapped
    /\ last_call.op = "unmap_bios"
    /\ ncalls = MaxCalls

\* C7: the overlay range is not writable.  In every reachable memory state
\* and for every address of 0x0000-0x00FF, read_byte returns the byte of the
\* overlay image (0x31 at 0x0000) while the overlay is mapped and 0x00 once
\* it is unmapped, also right after a write_byte or write_word to that
\* address.
OverlayByte(addr) == IF is_bios_mapped THEN BIOS[addr + 1] ELSE 0
C7_OverlayRangeNotWritable ==
    /\ is_bios_mapped => read_byte(mmu, 0) = 49
    /\ \A addr \in {a \in ProbeAddrs : a <= 255} :
          /\ read_byte(mmu, addr) = OverlayByte(addr)
          /\ \A val \in ProbeBytes :
                read_byte(write_byte(mmu, addr, val), addr) = OverlayByte(addr)
          /\ \A d16 \in ProbeWords :
                read_byte(write_word(mmu, addr, d16), addr) = OverlayByte(addr)
    /\ (last_call.op = "read_byte" /\ last_call.addr <= 255)
          => last_call.ret = OverlayByte(last_call.addr)

\* C7 witness: address 0x0000 was read as 0x00 after the overlay was
\* unmapped.
C7_Witness ==
    /\ ~is_bios_mapped
    /\ last_call.op = "read_byte" /\ last_call.addr = 0 /\ last_call.ret = 0

\* addr and addr + 1 both inside working RAM, both inside high RAM, or both
\* inside the echo range.
WordInside(addr) ==
    \/ (49152 <= addr /\ addr + 1 <= 57343)
    \/ (65408 <= addr /\ addr + 1 <= 65534)
    \/ (57344 <= addr /\ addr + 1 <= 65023)

\* C8: word round-trip.  In every reachable memory state, for every such
\* address and every 16-bit value, write_word then read_word returns the
\* value, the low byte stored at addr and the high byte at addr + 1; and the
\* write_word calls the harness made are read back so.
C8_WordRoundTrip ==
    /\ \A addr \in ProbeAddrs, d16 \in ProbeWords :
          WordInside(addr) =>
             LET m == write_word(mmu, addr, d16)
             IN  /\ read_word(m, addr) = d16
                 /\ read_byte(m, addr) = d16 % 256
                 /\ read_byte(m, addr + 1) = d16 \div 256
    /\ (last_call.op = "write_word" /\ WordInside(last_call.addr))
          => /\ panicked = ""
             /\ read_word(mmu, last_call.addr) = last_call.val

\* C8 witness: the harness wrote 0x1020 at the first working RAM address and
\* it reads back.
C8_Witness ==
    /\ last_call.op = "write_word" /\ last_call.addr = 49152
    /\ last_call.val = 4128
    /\ read_word(mmu, 49152) = 4128
    /\ read_byte(mmu, 49152) = 32 /\ read_byte(mmu, 49153) = 16

\* C9: no operation of the memory interconnect fails, for any 16-bit
\* address: read_word and write_word at 0xFFFF, and the Cpu's word fetches
\* and stack accesses at 0xFFFF, return normally.
C9_NoMmuOperationFails ==
    panicked # "attempt to add with overflow"

\* The register pair PUSH / POP select with p: BC, DE, HL, AF.
Pair(r, p) ==
    CASE p = 0 -> r.b * 256 + r.c
      [] p = 1 -> r.d * 256 + r.e
      [] p = 2 -> r.h * 256 + r.l
      [] p = 3 -> r.a * 256 + r.f
PUSH(p) == [cb |-> FALSE, byte |-> 197 + 16 * p]
POP(p)  == [cb |-> FALSE, byte |-> 193 + 16 * p]

\* The last two calls were steps that executed PUSH of pair p, then POP of
\* pair p, and both returned.
PushThenPop(p) ==
    /\ panicked = ""
    /\ last_call.op = "step" /\ prev_call.op = "step"
    /\ prev_call.opcode = PUSH(p)
    /\ last_call.opcode = POP(p)

\* A readable and writable cell: video RAM, working RAM and its echo, or
\* high RAM.
InRam(addr) ==
    \/ (32768 <= addr /\ addr <= 40959)
    \/ (49152 <= addr /\ addr <= 65023)
    \/ (65408 <= addr /\ addr <= 65534)

\* The two bytes a PUSH started at SP = sp writes are both in RAM.
StackInRam(sp) ==
    /\ InRam((sp + 65536 - 2) % 65536)
    /\ InRam((sp + 65536 - 1) % 65536)

\* C10 as stated: for every pair, every value of it and every starting SP,
\* PUSH then POP of the pair restores the pair and SP.
C10_PushPopRestoresAnySP ==
    \A p \in 0..3 :
       PushThenPop(p) =>
          /\ Pair(regs, p) = Pair(prev_call.before, p)
          /\ regs.sp = prev_call.before.sp

\* C10 as amended: for every pair, every value of it and every starting SP
\* whose two stack bytes (SP-2 and SP-1, mod 65536) are both in RAM, PUSH
\* then POP of the pair restores the pair and SP.
C10_PushPopRestoresInRam ==
    \A p \in 0..3 :
       (PushThenPop(p) /\ StackInRam(prev_call.before.sp)) =>
          /\ Pair(regs, p) = Pair(prev_call.before, p)
          /\ regs.sp = prev_call.before.sp

\* C10 witness: AF, holding a non-zero value, was pushed and popped with the
\* stack in high RAM.
C10_Witness ==
    /\ PushThenPop(3)
    /\ prev_call.before.sp = 65534
    /\ Pair(prev_call.before, 3) = 154 * 256 + 176
    /\ Pair(regs, 3) = 154 * 256 + 176
    /\ regs.sp = 65534

\* The last call was a step of the running Cpu that decoded the entry oc
\* (whether or not the step returned).
Decoded(oc) ==
    /\ last_call.op = "step" /\ ~last_call.halted
    /\ last_call.opcode = oc
\* The same for the call before the last.
DecodedBefore(oc) ==
    /\ prev_call.op = "step" /\ ~prev_call.halted
    /\ prev_call.opcode = oc

\* The little-endian word held at addr and addr + 1 (mod 65536) of memory m.
WordAt(m, addr) ==
    read_byte(m, addr) + 256 * read_byte(m, (addr + 1) % 65536)

\* C11: CALL nn decrements SP by 2 (mod 65536) before writing, stores at the
\* new SP the PC reached after fetching the target (low byte at SP, high
\* byte at SP+1) and sets PC to nn; RET sets PC to the word read at SP and
\* increments SP by 2; a CALL followed by a RET resumes at the instruction
\* following the CALL with SP restored.
C11_CallThenRetResumes ==
    /\ Decoded(CALL) =>
          LET b   == last_call.before
              ret == (b.pc + 3) % 65536
          IN  /\ panicked = ""
              /\ regs.sp = (b.sp + 65536 - 2) % 65536
              /\ read_byte(mmu, regs.sp) = ret % 256
              /\ read_byte(mmu, (regs.sp + 1) % 65536) = ret \div 256
              /\ regs.pc = WordAt(last_call.mem, (b.pc + 1) % 65536)
    /\ Decoded(RET) =>
          LET b == last_call.before
          IN  /\ panicked = ""
              /\ regs.pc = WordAt(last_call.mem, b.sp)
              /\ regs.sp = (b.sp + 2) % 65536
    /\ (DecodedBefore(CALL) /\ Decoded(RET)) =>
          /\ regs.pc = (prev_call.before.pc + 3) % 65536
          /\ regs.sp = prev_call.before.sp

\* The condition cc (NZ, Z, NC, C) as the flag register f decides it.
CondHolds(f, cc) ==
    CASE cc = 0 -> (f \div 128) % 2 = 0
      [] cc = 1 -> (f \div 128) % 2 = 1
      [] cc = 2 -> (f \div 16) % 2 = 0
      [] cc = 3 -> (f \div 16) % 2 = 1
\* A byte read as a signed 8-bit displacement.
Signed(d) == IF d < 128 THEN d ELSE d - 256

\* C12: for each conditional relative jump JR cc,d and every displacement d:
\* if the condition holds, PC is (PC after the operand fetch + d) mod 65536
\* and the base cost is returned; if it fails, PC is the PC after the operand
\* fetch and the alternate cost is returned; the flags are unchanged.
C12_RelativeJump ==
    \A cc \in 0..3 :
       Decoded(JR(cc)) =>
          LET b     == last_call.before
              after == (b.pc + 2) % 65536
              d     == Signed(read_byte(last_call.mem, (b.pc + 1) % 65536))
          IN  /\ panicked = ""
              /\ regs.f = b.f
              /\ IF CondHolds(b.f, cc)
                 THEN /\ regs.pc = (after + d + 65536) % 65536
                      /\ last_call.ret = ncycles(JR(cc))[1]
                 ELSE /\ regs.pc = after
                      /\ last_call.ret = ncycles(JR(cc))[2]

\* C12 witness: JR NZ with displacement -128 was taken from 0xC000.
C12_Witness ==
    /\ Decoded(JR(0)) /\ panicked = ""
    /\ last_call.before.pc = 49152
    /\ read_byte(last_call.mem, 49153) = 128
    /\ regs.pc = 49026
    /\ last_call.ret = 3

\* The last call was a step that executed an instruction and returned.
Executed ==
    /\ last_call.op = "step" /\ ~last_call.halted
    /\ last_call.opcode # None
    /\ panicked = ""

\* The last step decoded a conditional relative jump whose condition failed.
JumpNotTaken ==
    \E cc \in 0..3 :
       /\ last_call.opcode = JR(cc)
       /\ ~CondHolds(last_call.before.f, cc)

\* C13: cycle accounting.  Every step that executes an instruction returns
\* the base cost of the instruction's table entry, except a conditional
\* relative jump whose condition fails, which returns the alternate cost.
C13_CycleAccounting ==
    Executed =>
       last_call.ret = IF JumpNotTaken
                       THEN ncycles(last_call.opcode)[2]
                       ELSE ncycles(last_call.opcode)[1]

\* C13 witness: after a CALL into the overlay, JR NZ at 0x000A was not taken
\* (Z set) and returned the alternate cost, lower than the base cost.
C13_Witness ==
    /\ Executed /\ JumpNotTaken
    /\ DecodedBefore(CALL)
    /\ last_call.addr = 10
    /\ last_call.ret = ncycles(JR(0))[2]
    /\ ncycles(JR(0))[2] < ncycles(JR(0))[1]

\* C14: the video timing state machine starts in OAM-Scan and, driven by
\* Gpu::step(cycles) calls, passes through OAM-Scan, Drawing and HBlank for
\* each visible line, then VBlank, then OAM-Scan again: with enough
\* accumulated cycles every mode is eventually reached.
C14_EveryModeEventuallyReached ==
    /\ <>(curr_mode = "Drawing")
    /\ <>(curr_mode = "HBlank")
    /\ <>(curr_mode = "VBlank")

\* C15: executing opcode byte 0x00 in the primary space completes normally,
\* changes no register other than PC, no flag and no memory, and advances PC
\* by exactly 1.
C15_NopOnlyAdvancesPC ==
    (/\ last_call.op = "step" /\ ~last_call.halted /\ ~last_call.cb
     /\ last_call.val = 0)
       => /\ panicked = ""
          /\ regs = [last_call.before EXCEPT !.pc = (@ + 1) % 65536]
          /\ mmu = last_call.mem

\* The last call was a step made from power-on: PC = 0, overlay mapped, Cpu
\* running, latch clear.
PowerOnStep ==
    /\ last_call.op = "step"
    /\ last_call.before.pc = 0
    /\ last_call.mem.is_bios_mapped
    /\ ~last_call.halted /\ ~last_call.cb

\* LD SP,nn: the overlay's first instruction.
LD_SP == [cb |-> FALSE, byte |-> 49]

\* C16: from power-on, one step executes the overlay's first instruction
\* (0x31 with immediate 0xFFFE): afterwards PC = 3 and SP = 0xFFFE, no other
\* register, flag or memory byte has changed, and the returned cycle count
\* is that opcode's base cost.
C16_FirstOverlayInstruction ==
    PowerOnStep =>
       /\ panicked = ""
       /\ last_call.opcode = LD_SP
       /\ regs = [last_call.before EXCEPT !.pc = 3, !.sp = 65534]
       /\ mmu = last_call.mem
       /\ ~is_halted /\ ~next_opcode_is_cb
       /\ last_call.ret = ncycles(LD_SP)[1]

\* C16 witness: the first step was made from power-on after bytes had been
\* written to working RAM, and left PC = 3, SP = 0xFFFE.
C16_Witness ==
    /\ PowerOnStep
    /\ last_call.before = RegsDefault
    /\ wram # Empty
    /\ regs.pc = 3 /\ regs.sp = 65534
    /\ last_call.ret = 3

\* The last call was a direct run of the primary opcode `byte`, and returned.
Ran(byte) ==
    /\ last_call.op = "run_opcode_un" /\ last_call.val = byte
    /\ panicked = ""

\* The 8-bit operand r[y] in registers r and memory m: B, C, D, E, H, L, the
\* cell HL addresses, A.
Operand(r, m, y) ==
    CASE y = 0 -> r.b
      [] y = 1 -> r.c
      [] y = 2 -> r.d
      [] y = 3 -> r.e
      [] y = 4 -> r.h
      [] y = 5 -> r.l
      [] y = 6 -> read_byte(m, r.h * 256 + r.l)
      [] y = 7 -> r.a

\* Flag bit `flag` of the flag register f.
FlagOf(f, flag) == (f \div flag) % 2 = 1

\* What DEC r[y] did to the operand and the flags, the operand having been v.
DecDid(y, v) ==
    LET res == (v + 256 - 1) % 256
    IN  /\ Operand(regs, mmu, y) = res
        /\ FlagOf(regs.f, 128) <=> (res = 0)
        /\ FlagOf(regs.f, 64)
        /\ FlagOf(regs.f, 32) <=> (v % 16 = 0)
        /\ FlagOf(regs.f, 16) <=> FlagOf(last_call.before.f, 16)

\* The operand r[y] is a register, or the cell HL addresses is in RAM.
OperandWritable(r, y) == y # 6 \/ InRam(r.h * 256 + r.l)

\* C17 as stated: DEC r[y], for every operand and every operand value v:
\* the operand becomes (v - 1) mod 256, Z is set iff the result is 0, N is
\* set, H is set iff the low nibble of v was 0, and C is unchanged.
C17_DecAnyOperand ==
    \A y \in 0..7 :
       Ran(DEC_R(y)) =>
          DecDid(y, Operand(last_call.before, last_call.mem, y))

\* C17 as amended: the same for every register operand, and for the memory
\* operand (HL) when HL addresses RAM.
C17_DecWritableOperand ==
    \A y \in 0..7 :
       (Ran(DEC_R(y)) /\ OperandWritable(last_call.before, y)) =>
          DecDid(y, Operand(last_call.before, last_call.mem, y))

\* C17 witness: DEC B of 0x00 with C set gave 0xFF, Z clear, N and H set, C
\* still set.
C17_Witness ==
    /\ Ran(DEC_R(0))
    /\ last_call.before.b = 0 /\ last_call.before.f = 16
    /\ regs.b = 255 /\ regs.f = 64 + 32 + 16

\* What INC r[y] did to the operand and the flags, the operand having been v.
IncDid(y, v) ==
    LET res == (v + 1) % 256
    IN  /\ Operand(regs, mmu, y) = res
        /\ FlagOf(regs.f, 128) <=> (res = 0)
        /\ ~FlagOf(regs.f, 64)
        /\ FlagOf(regs.f, 32) <=> (v % 16 = 15)
        /\ FlagOf(regs.f, 16) <=> FlagOf(last_call.before.f, 16)

\* C18 as stated: INC r[y], for every operand and every operand value v:
\* the operand becomes (v + 1) mod 256, Z is set iff the result is 0, N is
\* cleared, H is set iff the low nibble of v was 0xF, and C is unchanged.
C18_IncAnyOperand ==
    \A y \in 0..7 :
       Ran(INC_R(y)) =>
          IncDid(y, Operand(last_call.before, last_call.mem, y))

\* C18 as amended: the same for every register operand, and for the memory
\* operand (HL) when HL addresses RAM.
C18_IncWritableOperand ==
    \A y \in 0..7 :
       (Ran(INC_R(y)) /\ OperandWritable(last_call.before, y)) =>
          IncDid(y, Operand(last_call.before, last_call.mem, y))

\* C18 witness: INC (HL) of 0xFF held in working RAM, with N and C set, gave
\* 0x00 with Z and H set, N clear, C still set.
C18_Witness ==
    /\ Ran(INC_R(6))
    /\ last_call.before.h = 192 /\ last_call.before.l = 1
    /\ read_byte(last_call.mem, 49153) = 255
    /\ last_call.before.f = 64 + 16
    /\ read_byte(mmu, 49153) = 0
    /\ regs.f = 128 + 32 + 16

\* The 16-bit pair rp[p]: BC, DE, HL, SP.
PairRP(r, p) ==
    CASE p = 0 -> r.b * 256 + r.c
      [] p = 1 -> r.d * 256 + r.e
      [] p = 2 -> r.h * 256 + r.l
      [] p = 3 -> r.sp

\* C19: INC rp[p] for every pair BC, DE, HL, SP and every value n: the pair
\* becomes (n + 1) mod 65536 and the flag register F is unchanged.
C19_IncPairWraps ==
    \A p \in 0..3 :
       Ran(INC_RP(p)) =>
          /\ PairRP(regs, p) = (PairRP(last_call.before, p) + 1) % 65536
          /\ regs.f = last_call.before.f

\* C19 witness: INC DE of 0xFFFF, all flags set, gave 0x0000 with all flags
\* still set.
C19_Witness ==
    /\ Ran(INC_RP(1))
    /\ PairRP(last_call.before, 1) = 65535 /\ last_call.before.f = 240
    /\ PairRP(regs, 1) = 0 /\ regs.f = 240

\* C20: XOR with operand d sets A to A xor d, sets Z iff the new A is 0 and
\* clears N, H and C; XOR of A with itself yields A = 0x00 with Z set and N,
\* H, C clear, for every starting A and every starting flag state.
C20_XorFlags ==
    \A z \in 0..7 :
       Ran(XOR_R(z)) =>
          LET a0 == last_call.before.a
              d  == Operand(last_call.before, last_call.mem, z)
          IN  /\ regs.a \in 0..255
              /\ \A k \in 0..7 :
                    (Bit(regs.a, k) = 1) <=> (Bit(a0, k) # Bit(d, k))
              /\ FlagOf(regs.f, 128) <=> (regs.a = 0)
              /\ regs.f \in {0, 128}
              /\ z = 7 => (regs.a = 0 /\ regs.f = 128)

\* C20 witness: XOR A with A = 0xFF and all flags set gave A = 0x00 with
\* only Z set.
C20_Witness ==
    /\ Ran(XOR_R(7))
    /\ last_call.before.a = 255 /\ last_call.before.f = 240
    /\ regs.a = 0 /\ regs.f = 128

\* C21: CP with operand n leaves A unmodified for every A and n, and sets
\* the flags as for the subtraction A - n: Z iff A = n, N set, H iff the low
\* nibble of A is less than the low nibble of n, C iff A < n.
C21_CompareFlags ==
    Ran(CP_N) =>
       LET a0 == last_call.before.a
           n  == read_byte(last_call.mem, last_call.before.pc)
       IN  /\ regs.a = a0
           /\ FlagOf(regs.f, FlagZ) <=> (a0 = n)
           /\ FlagOf(regs.f, FlagN)
           /\ FlagOf(regs.f, FlagH) <=> ((a0 % 16) < (n % 16))
           /\ FlagOf(regs.f, FlagC) <=> (a0 < n)

\* C21 witness: CP of A = 0x10 with 0x01, all flags clear before, left A at
\* 0x10 with N and H set, Z and C clear.
C21_Witness ==
    /\ Ran(CP_N)
    /\ read_byte(last_call.mem, last_call.before.pc) = 1
    /\ last_call.before.a = 16 /\ last_call.before.f = 0
    /\ regs.a = 16 /\ regs.f = 96

\* The rotate through carry of operand r[z], which held v, carry c before:
\* the result ((v << 1) mod 256) + c is in the operand where the operand can
\* be written, C is bit 7 of v, N and H are clear, Z is set iff the result
\* is 0.
RotDid(z, v) ==
    LET c   == IF FlagOf(last_call.before.f, FlagC) THEN 1 ELSE 0
        res == ((v * 2) % 256) + c
    IN  /\ res % 2 = c
        /\ \A k \in 1..7 : Bit(res, k) = Bit(v, k - 1)
        /\ OperandWritable(last_call.before, z) => Operand(regs, mmu, z) = res
        /\ FlagOf(regs.f, FlagC) <=> (Bit(v, 7) = 1)
        /\ ~FlagOf(regs.f, FlagN) /\ ~FlagOf(regs.f, FlagH)
        /\ FlagOf(regs.f, FlagZ) <=> (res = 0)

\* _run_opcode_cb returned from the secondary opcode `byte`.
RanCb(byte) ==
    /\ last_call.op = "run_opcode_cb" /\ last_call.val = byte
    /\ panicked = ""

\* C22: rotate left through carry (RLA, and RL r[z] in the secondary space)
\* for every operand value v and old carry c: the result is ((v << 1) mod
\* 256) with bit 0 equal to c, the new C equals bit 7 of v, N and H are
\* cleared, and Z is set iff the result is 0.
C22_RotateLeftThroughCarry ==
    /\ Ran(RLA) => RotDid(7, last_call.before.a)
    /\ \A z \in 0..7 :
          RanCb(RL_R(z)) =>
             RotDid(z, Operand(last_call.before, last_call.mem, z))

\* C22 witness: RL (HL) on a RAM cell holding 0x80 with the carry set left
\* 0x01 in the cell, with only C set.
C22_Witness ==
    /\ RanCb(RL_R(6))
    /\ InRam(hl(last_call.before))
    /\ read_byte(last_call.mem, hl(last_call.before)) = 128
    /\ last_call.before.f = 240
    /\ read_byte(mmu, hl(regs)) = 1 /\ regs.f = 16

CountedDown(msb0, lsb0, msb, lsb) ==
    /\ msb * 256 + lsb = (msb0 * 256 + lsb0 + 65536 - 1) % 65536
    /\ msb # msb0 <=> lsb0 = 0
CountedUp(msb0, lsb0, msb, lsb) ==
    /\ msb * 256 + lsb = (msb0 * 256 + lsb0 + 1) % 65536
    /\ msb # msb0 <=> lsb0 = 255

\* The registers other than the pair made of fields hi and lo are as they
\* were before the last call, F among them.
OnlyPairChanged(hi, lo) ==
    \A k \in (DOMAIN regs) \ {hi, lo} : regs[k] = last_call.before[k]

\* C24: the byte-pair counters behave as 16-bit counters: for every value n
\* held in a pair, dec_bc / dec_de / dec_hl leave the pair at (n - 1) mod
\* 65536 and inc_hl leaves it at (n + 1) mod 65536, the borrow or carry
\* reaching the high byte only when the low byte wraps, and F is not
\* touched; hence LD (HL+),A and LD (HL-),A write A at the old HL (the write
\* the interconnect makes of A at that address, stored when it is RAM) and
\* move HL by exactly one.
C24_PairCounters ==
    LET r0 == last_call.before
    IN  /\ last_call.op = "dec_bc" =>
              CountedDown(r0.b, r0.c, regs.b, regs.c)
              /\ OnlyPairChanged("b", "c")
        /\ last_call.op = "dec_de" =>
              CountedDown(r0.d, r0.e, regs.d, regs.e)
              /\ OnlyPairChanged("d", "e")
        /\ last_call.op = "dec_hl" =>
              CountedDown(r0.h, r0.l, regs.h, regs.l)
              /\ OnlyPairChanged("h", "l")
        /\ last_call.op = "inc_hl" =>
              CountedUp(r0.h, r0.l, regs.h, regs.l)
              /\ OnlyPairChanged("h", "l")
        /\ Ran(LD_HLI_A) =>
              /\ CountedUp(r0.h, r0.l, regs.h, regs.l)
              /\ OnlyPairChanged("h", "l")
              /\ mmu = write_byte(last_call.mem, hl(r0), r0.a)
              /\ InRam(hl(r0)) => read_byte(mmu, hl(r0)) = r0.a
        /\ Ran(LD_HLD_A) =>
              /\ CountedDown(r0.h, r0.l, regs.h, regs.l)
              /\ OnlyPairChanged("h", "l")
              /\ mmu = write_byte(last_call.mem, hl(r0), r0.a)
              /\ InRam(hl(r0)) => read_byte(mmu, hl(r0)) = r0.a

\* C24 witness: LD (HL-),A with HL = 0xC000 stored A = 0x5A at 0xC000 and
\* left HL at 0xBFFF, the borrow taken from the high byte, all flags still
\* set.
C24_Witness ==
    /\ Ran(LD_HLD_A)
    /\ hl(last_call.before) = 49152 /\ last_call.before.f = 240
    /\ read_byte(last_call.mem, 49152) = 0
    /\ read_byte(mmu, 49152) = 90
    /\ hl(regs) = 49151 /\ regs.f = 240

\* C25: executing the primary prefix opcode 0xCB sets the secondary-space
\* latch and has no other effect beyond the opcode fetch: the step returns,
\* PC advances by exactly 1, and SP, all 8-bit registers, F, the halted state
\* and all memory are unchanged.
C25_PrefixOnlySetsLatch ==
    Decoded(PREFIX) =>
       /\ panicked = ""
       /\ next_opcode_is_cb
       /\ regs = [last_call.before EXCEPT !.pc = (@ + 1) % 65536]
       /\ ~is_halted
       /\ mmu = last_call.mem

\* C25 witness: a step from PC = 0xC000 with the latch clear executed 0xCB;
\* the latch is set and PC is 0xC001.
C25_Witness ==
    /\ Decoded(PREFIX) /\ ~last_call.cb
    /\ last_call.before.pc = 49152
    /\ next_opcode_is_cb /\ regs.pc = 49153
    /\ regs.sp = last_call.before.sp /\ mmu = last_call.mem

\* The last step ran the compare-immediate behaviour: it returned having
\* consumed the byte after the opcode, with the flags of A minus that byte
\* and A as it was.
ComparedImmediate ==
    LET r0 == last_call.before
        n  == read_byte(last_call.mem, (r0.pc + 1) % 65536)
    IN  /\ Executed
        /\ regs.pc = (r0.pc + 2) % 65536
        /\ regs.a = r0.a
        /\ FlagOf(regs.f, FlagZ) <=> (r0.a = n)
        /\ FlagOf(regs.f, FlagN)
        /\ FlagOf(regs.f, FlagH) <=> ((r0.a % 16) < (n % 16))
        /\ FlagOf(regs.f, FlagC) <=> (r0.a < n)

\* C26: in the primary-space dispatch the compare-immediate behaviour is
\* executed only for the encoding 0xFE (x = 3, y = 7, z = 6); a step that
\* decodes any other primary byte with x = 3 and y = 7 (0xF8-0xFD, 0xFF)
\* runs that byte's own instruction or ends in the fatal decode failure, and
\* never consumes an operand byte as a compare.
C26_CompareOnlyForFE ==
    \A byte \in X3Y7Bytes \ {CP_N} :
       (/\ last_call.op = "step" /\ ~last_call.halted /\ ~last_call.cb
        /\ last_call.val = byte)
          => ~ComparedImmediate

\* The last step was an executed store of A into the I/O page at 0xFF50.
StoredAtFF50 ==
    /\ Executed
    /\ \/ /\ last_call.val = 224
          /\ read_byte(last_call.mem, (last_call.before.pc + 1) % 65536) = 80
       \/ last_call.val = 226 /\ last_call.before.c = 80
       \/ last_call.val \in {34, 50} /\ hl(last_call.before) = 65360

C28_SetFlagFrame ==
    last_call.op = "set_flag" =>
       LET r0 == last_call.before
       IN  /\ get_flag(regs, last_call.flag) = last_call.set
           /\ \A g \in Flags \ {last_call.flag} :
                 get_flag(regs, g) = get_flag(r0, g)
           /\ regs.f \in 0..255
           /\ regs.f % 16 = r0.f % 16
           /\ \A k \in 0..7 :
                 2 ^ k # last_call.flag => Bit(regs.f, k) = Bit(r0.f, k)
           /\ [regs EXCEPT !.f = 0] = [r0 EXCEPT !.f = 0]

\* C28 witness: set_flag(H, false) from F = 0xFF left F = 0xDF: H reads
\* false, Z, N and C read true, the lower nibble is still 0xF.
C28_Witness ==
    /\ last_call.op = "set_flag"
    /\ last_call.flag = FlagH /\ ~last_call.set
    /\ last_call.before.f = 255
    /\ regs.f = 223
    /\ ~get_flag(regs, FlagH) /\ get_flag(regs, FlagZ)

====
